---- MODULE Spec2Model ----
(***************************************************************************)
(* The menulist package (MenuItem, MenuList, NewMenu, GetSelectedItem,     *)
(* IncrementSelected, DecrementSelected, Draw) and the host program built  *)
(* on it (update, main), as a state machine.                               *)
(*                                                                         *)
(* Conventions.  A Go pointer is a sequence: <<>> is the nil pointer and   *)
(* <<v>> points at a cell holding v.  A *color.NRGBA is the name of the    *)
(* colour it points at, or Nil.  The float64 layout fields hold whole      *)
(* numbers here.  Go slices are 0-based and sequences 1-based, so          *)
(* MenuItems[i] of the source is MenuItems[i + 1] below.                   *)
(***************************************************************************)
EXTENDS Integers, Sequences, FiniteSets, TLC

VARIABLES
    phase,      \* "start" before NewMenu is called, then "built" / "failed"; "exited" after os.Exit
    input,      \* the MenuListInput handed to NewMenu
    ml,         \* the MenuList NewMenu returned
    err,        \* the error NewMenu returned (Nil when none)
    images,     \* the off-screen images of the items, by handle: what was last drawn on each
    screen,     \* the destination surface of the step just taken: what was composited, in order
    ret,        \* the value the step just taken returned (<<>> when it returns nothing)
    lastOp,     \* the operation just taken
    run,        \* the current run of navigation calls: which call, how many in a row,
                \* and the selected index the run started from
    state,      \* host: the gameState
    keys,       \* host: the keys inpututil reports as just pressed in the frame just handled
    square      \* host: the cached square image (the nil pointer until first allocated)

vars == <<phase, input, ml, err, images, screen, ret, lastOp, run, state, keys, square>>

----------------------------------------------------------------------------
(* Bounds *)

\* longest item list of the navigation specification
MaxItems == 3
\* longest item list of the construction specifications
MaxBuildItems == 2
\* longest run of one navigation call that is counted: len(items) + 5 calls fit
RunCap == MaxItems + 5

----------------------------------------------------------------------------
(* Values *)

Nil == "nil"

NilPtr == <<>>
Ptr(v) == <<v>>
Deref(p) == p[1]

\* the fixed fallback colours of NewMenu
Cyan == "cyan"
Black == "black"
Magenta == "magenta"
White == "white"

\* the errors NewMenu returns
ErrWidth == "Mandatory input field width is missing"
ErrHeight == "Mandatory input field height is missing"
ErrMenuItems == "Mandatory input field MenuItems is missing"

\* MenuList{}: the zero value returned next to an error
ZeroMenuList ==
    [Tx |-> 0, Ty |-> 0, Width |-> 0, Height |-> 0, Offx |-> 0, Offy |-> 0,
     DefaultBgColour |-> Nil, DefaultTxtColour |-> Nil,
     DefaultSelBgColour |-> Nil, DefaultSelTxtColour |-> Nil,
     SelectedIndex |-> NilPtr, MenuItems |-> <<>>]

\* gameState
titleScreen == 0
options == 1
play == 2
quit == 3

\* a freshly allocated image: nothing filled, nothing drawn
BlankImage == [fill |-> Nil, text |-> "", txtX |-> 0, txtY |-> 0, txtColour |-> Nil]

----------------------------------------------------------------------------
(* NewMenu *)

\* forgets the height check
ValidateNoHeight(in) ==
    IF in.Width = 0 THEN ErrWidth
    ELSE IF Len(in.MenuItems) < 1 THEN ErrMenuItems
    ELSE Nil

\* the three mandatory-field checks, in the order of the code: the error, or Nil
Validate(in) ==
    IF in.Width = 0 THEN ErrWidth
    ELSE IF in.Height = 0 THEN ErrHeight
    ELSE IF Len(in.MenuItems) < 1 THEN ErrMenuItems
    ELSE Nil

\* overwrites a supplied Offy too
DefaultOffyAlways(in) == in.Height

\* if input.Offy == 0 { input.Offy = float64(input.Height) }
DefaultOffy(in) == IF in.Offy = 0 THEN in.Height ELSE in.Offy

\* the four default colours, each replaced by its fallback when nil
DefaultColours(in) ==
    [Bg     |-> IF in.DefaultBgColour = Nil THEN Cyan ELSE in.DefaultBgColour,
     Txt    |-> IF in.DefaultTxtColour = Nil THEN Black ELSE in.DefaultTxtColour,
     SelBg  |-> IF in.DefaultSelBGColour = Nil THEN Magenta ELSE in.DefaultSelBGColour,
     SelTxt |-> IF in.DefaultSelTxtColour = Nil THEN White ELSE in.DefaultSelTxtColour]

\* resolves the text colour from the background override
ResolveColoursTxtFromBg(item, m) ==
    [item EXCEPT
        !.BgColour     = IF item.BgColour # Nil THEN item.BgColour ELSE m.DefaultBgColour,
        !.TxtColour    = IF item.BgColour # Nil THEN item.BgColour ELSE m.DefaultTxtColour,
        !.SelBgColour  = IF item.SelBgColour # Nil THEN item.SelBgColour
                                                   ELSE m.DefaultSelBgColour,
        !.SelTxtColour = IF item.SelTxtColour # Nil THEN item.SelTxtColour
                                                    ELSE m.DefaultSelTxtColour]

\* the body of the loop over input.MenuItems: each of the four colours is the item's
\* own when it has one, the list's default otherwise
ResolveColours(item, m) ==
    [item EXCEPT
        !.BgColour     = IF item.BgColour # Nil THEN item.BgColour ELSE m.DefaultBgColour,
        !.TxtColour    = IF item.TxtColour # Nil THEN item.TxtColour ELSE m.DefaultTxtColour,
        !.SelBgColour  = IF item.SelBgColour # Nil THEN item.SelBgColour
                                                   ELSE m.DefaultSelBgColour,
        !.SelTxtColour = IF item.SelTxtColour # Nil THEN item.SelTxtColour
                                                    ELSE m.DefaultSelTxtColour]

\* overwrites a supplied TxtY too
ResolveTxtYAlways(item, m) == [item EXCEPT !.TxtY = m.Height - 5]

\* if item.TxtY == 0 { ml.MenuItems[i].TxtY = ml.Height - 5 }
ResolveTxtY(item, m) ==
    IF item.TxtY = 0 THEN [item EXCEPT !.TxtY = m.Height - 5] ELSE item

\* NewMenu: the MenuList, the error and the images it allocated
NewMenu(in) ==
    IF Validate(in) # Nil
    THEN [ml |-> ZeroMenuList, err |-> Validate(in), images |-> <<>>]
    ELSE LET d  == DefaultColours(in)
             m0 == [Tx |-> in.Tx, Ty |-> in.Ty,
                    Width |-> in.Width, Height |-> in.Height,
                    Offx |-> in.Offx, Offy |-> DefaultOffy(in),
                    DefaultBgColour |-> d.Bg, DefaultTxtColour |-> d.Txt,
                    DefaultSelBgColour |-> d.SelBg, DefaultSelTxtColour |-> d.SelTxt,
                    SelectedIndex |-> Ptr(0),
                    MenuItems |-> in.MenuItems]
             n  == Len(in.MenuItems)
             resolved == [i \in 1..n |->
                             ResolveTxtY(ResolveColours(in.MenuItems[i], m0), m0)]
             withImages == [i \in 1..n |-> [resolved[i] EXCEPT !.image = Ptr(i)]]
         IN  [ml |-> [m0 EXCEPT !.MenuItems = withImages],
              err |-> Nil,
              images |-> [i \in 1..n |-> BlankImage]]

----------------------------------------------------------------------------
(* Navigation *)

\* whether m.MenuItems[*m.SelectedIndex] can be read; Go panics otherwise
CanIndex(m) ==
    /\ m.SelectedIndex # NilPtr
    /\ Deref(m.SelectedIndex) \in 0..(Len(m.MenuItems) - 1)

\* returns the text of the selected item instead of its name
GetSelectedItemText(m) == m.MenuItems[Deref(m.SelectedIndex) + 1].Text

\* GetSelectedItem, where the index can be read
GetSelectedItem(m) == m.MenuItems[Deref(m.SelectedIndex) + 1].Name

\* compares with <= maxIndex: steps past the last item
IncrementSelectedPastEnd(m) ==
    LET maxIndex == Len(m.MenuItems) - 1
    IN  IF Deref(m.SelectedIndex) <= maxIndex
        THEN [m EXCEPT !.SelectedIndex = Ptr(Deref(m.SelectedIndex) + 1)]
        ELSE m

IncrementSelected(m) ==
    LET maxIndex == Len(m.MenuItems) - 1
    IN  IF Deref(m.SelectedIndex) < maxIndex
        THEN [m EXCEPT !.SelectedIndex = Ptr(Deref(m.SelectedIndex) + 1)]
        ELSE m

\* wraps to the last item instead of stopping at the first
DecrementSelectedWrap(m) ==
    LET minIndex == 0
    IN  IF Deref(m.SelectedIndex) > minIndex
        THEN [m EXCEPT !.SelectedIndex = Ptr(Deref(m.SelectedIndex) - 1)]
        ELSE [m EXCEPT !.SelectedIndex = Ptr(Len(m.MenuItems) - 1)]

DecrementSelected(m) ==
    LET minIndex == 0
    IN  IF Deref(m.SelectedIndex) > minIndex
        THEN [m EXCEPT !.SelectedIndex = Ptr(Deref(m.SelectedIndex) - 1)]
        ELSE m

----------------------------------------------------------------------------
(* Draw *)

\* item.image after Fill and text.Draw: the fill replaces what was there
Painted(item, selected) ==
    [fill      |-> IF selected THEN item.SelBgColour ELSE item.BgColour,
     text      |-> item.Text,
     txtX      |-> item.TxtX,
     txtY      |-> item.TxtY,
     txtColour |-> IF selected THEN item.SelTxtColour ELSE item.TxtColour]

\* screen.DrawImage(img, opts): img composited at the translation of opts
Composite(img, x, y) == [kind |-> "image", img |-> img, x |-> x, y |-> y]

\* the loop of Draw from item `index` on; optsX, optsY are opts.GeoM's translation
RECURSIVE DrawLoop(_, _, _, _, _, _)
DrawLoop(m, index, optsX, optsY, imgs, scr) ==
    IF index >= Len(m.MenuItems)
    THEN [ml |-> m, images |-> imgs, screen |-> scr]
    ELSE LET item  == m.MenuItems[index + 1]
             h     == Deref(item.image)
             imgs1 == [imgs EXCEPT ![h] = Painted(item, index = Deref(m.SelectedIndex))]
             scr1  == Append(scr, Composite(imgs1[h], optsX, optsY))
         IN  DrawLoop(m, index + 1, optsX + m.Offx, optsY + m.Offy, imgs1, scr1)

\* moves the menu itself instead of the draw options: the origin drifts each frame
DrawDrift(m, imgs, scr) ==
    LET r == DrawLoop(m, 0, m.Tx, m.Ty, imgs, scr)
    IN  [r EXCEPT !.ml = [m EXCEPT !.Tx = m.Tx + m.Offx, !.Ty = m.Ty + m.Offy]]

\* paints every item with its unselected colours
DrawNoneSelected(m, imgs, scr) ==
    DrawLoop([m EXCEPT !.SelectedIndex = Ptr(Len(m.MenuItems))], 0, m.Tx, m.Ty, imgs, scr)

\* Draw(screen): the menu, the item images and the screen afterwards
Draw(m, imgs, scr) == DrawLoop(m, 0, m.Tx, m.Ty, imgs, scr)

----------------------------------------------------------------------------
(* Inputs of the library specifications *)

SeqsOf(S, lo, hi) == UNION {[1..n -> S] : n \in lo..hi}

Item(name, text, x, y, bg, txt, selBg, selTxt) ==
    [Name |-> name, Text |-> text, TxtX |-> x, TxtY |-> y, image |-> NilPtr,
     BgColour |-> bg, TxtColour |-> txt, SelBgColour |-> selBg, SelTxtColour |-> selTxt]

\* construction, layout side: every mandatory field present or missing, offsets and
\* text offsets zero or not
BuildItems == {Item("item", "ITEM", x, y, Nil, Nil, Nil, Nil) : x \in {0, 36}, y \in {0, 25}}

BuildInputs ==
    [Tx : {0, 128}, Ty : {0, 128}, Width : {0, 128}, Height : {0, 3, 36},
     Offx : {0, 10}, Offy : {0, 40},
     DefaultBgColour : {Nil, "purple1"}, DefaultTxtColour : {Nil},
     DefaultSelBGColour : {Nil}, DefaultSelTxtColour : {Nil},
     MenuItems : SeqsOf(BuildItems, 0, MaxBuildItems)]

\* construction, colour side: every default and every override supplied or not, each
\* field with a colour of its own
ColourItems ==
    {Item("item", "ITEM", 0, 0, bg, txt, selBg, selTxt) :
        bg \in {Nil, "green1"}, txt \in {Nil, "green2"},
        selBg \in {Nil, "green3"}, selTxt \in {Nil, "green4"}}

ColourInputs ==
    [Tx : {0}, Ty : {0}, Width : {128}, Height : {36}, Offx : {0}, Offy : {0},
     DefaultBgColour : {Nil, "purple1"}, DefaultTxtColour : {Nil, "purple2"},
     DefaultSelBGColour : {Nil, "purple3"}, DefaultSelTxtColour : {Nil, "purple4"},
     MenuItems : SeqsOf(ColourItems, 1, MaxBuildItems)]

\* navigation and drawing: valid menus of 1..MaxItems items named A, B, C, ...; each
\* item plain or styled, the list stacked by default or laid out diagonally
ItemNames == <<"A", "B", "C", "D", "E", "F">>

NavStyles == {"plain", "styled"}

NavItem(i, style) ==
    IF style = "plain"
    THEN Item(ItemNames[i], "plain", 0, 0, Nil, Nil, Nil, Nil)
    ELSE Item(ItemNames[i], "styled", 12, 25, "green1", "green2", "green3", "green4")

NavInputs ==
    {[Tx |-> l[1], Ty |-> l[2], Width |-> 128, Height |-> 36, Offx |-> l[3], Offy |-> l[4],
      DefaultBgColour |-> Nil, DefaultTxtColour |-> Nil,
      DefaultSelBGColour |-> "purple3", DefaultSelTxtColour |-> Nil,
      MenuItems |-> [i \in 1..Len(styles) |-> NavItem(i, styles[i])]] :
        l \in {<<128, 128, 0, 0>>, <<7, 16, 10, 40>>},
        styles \in SeqsOf(NavStyles, 1, MaxItems)}

----------------------------------------------------------------------------
(* The library as a state machine *)

NoRun == [op |-> "none", count |-> 0, from |-> 0]

\* the run after one more call of `op` made at selected index `sel`
Extend(r, op, sel) ==
    IF r.op = op THEN [r EXCEPT !.count = r.count + 1]
    ELSE [op |-> op, count |-> 1, from |-> sel]

CanExtend(r, op) == r.op # op \/ r.count < RunCap

InitWith(inputs) ==
    /\ phase = "start"
    /\ input \in inputs
    /\ ml = ZeroMenuList
    /\ err = Nil
    /\ images = <<>>
    /\ screen = <<>>
    /\ ret = NilPtr
    /\ lastOp = "none"
    /\ run = NoRun
    /\ state = titleScreen
    /\ keys = {}
    /\ square = NilPtr

hostVars == <<state, keys, square>>

NewMenuCall ==
    /\ phase = "start"
    /\ LET r == NewMenu(input)
       IN  /\ ml' = r.ml
           /\ err' = r.err
           /\ images' = r.images
           /\ phase' = IF r.err = Nil THEN "built" ELSE "failed"
    /\ lastOp' = "NewMenu"
    /\ screen' = <<>>
    /\ ret' = NilPtr
    /\ UNCHANGED <<input, run, hostVars>>

GetSelectedItemCall ==
    /\ phase = "built"
    /\ IF CanIndex(ml)
       THEN /\ ret' = Ptr(GetSelectedItem(ml))
            /\ phase' = phase
       ELSE /\ ret' = NilPtr
            /\ phase' = "panicked"
    /\ lastOp' = "GetSelectedItem"
    /\ screen' = <<>>
    /\ UNCHANGED <<input, ml, err, images, run, hostVars>>

IncrementSelectedCall ==
    /\ phase = "built"
    /\ CanExtend(run, "IncrementSelected")
    /\ ml' = IncrementSelected(ml)
    /\ run' = Extend(run, "IncrementSelected", Deref(ml.SelectedIndex))
    /\ lastOp' = "IncrementSelected"
    /\ screen' = <<>>
    /\ ret' = NilPtr
    /\ UNCHANGED <<phase, input, err, images, hostVars>>

DecrementSelectedCall ==
    /\ phase = "built"
    /\ CanExtend(run, "DecrementSelected")
    /\ ml' = DecrementSelected(ml)
    /\ run' = Extend(run, "DecrementSelected", Deref(ml.SelectedIndex))
    /\ lastOp' = "DecrementSelected"
    /\ screen' = <<>>
    /\ ret' = NilPtr
    /\ UNCHANGED <<phase, input, err, images, hostVars>>

\* Draw onto a cleared destination surface
DrawCall ==
    /\ phase = "built"
    /\ LET r == Draw(ml, images, <<>>)
       IN  /\ ml' = r.ml
           /\ images' = r.images
           /\ screen' = r.screen
    /\ lastOp' = "Draw"
    /\ ret' = NilPtr
    /\ UNCHANGED <<phase, input, err, run, hostVars>>

Init == InitWith(NavInputs)

Next ==
    \/ NewMenuCall
    \/ GetSelectedItemCall
    \/ IncrementSelectedCall
    \/ DecrementSelectedCall
    \/ DrawCall

Spec == Init /\ [][Next]_vars

\* construction alone, over the layout inputs and over the colour inputs
InitBuild == InitWith(BuildInputs)

InitColour == InitWith(ColourInputs)

NextBuild == NewMenuCall

SpecBuild == InitBuild /\ [][NextBuild]_vars

SpecColour == InitColour /\ [][NextBuild]_vars

----------------------------------------------------------------------------
(* The host program: main and update *)

Keys == {"KeyUp", "KeyDown", "KeyEnter", "KeyEscape"}

\* the menu main builds
MainInput ==
    [Tx |-> 128, Ty |-> 128, Width |-> 128, Height |-> 36, Offx |-> 0, Offy |-> 0,
     DefaultBgColour |-> Nil, DefaultTxtColour |-> Nil,
     DefaultSelBGColour |-> "purple3", DefaultSelTxtColour |-> Nil,
     MenuItems |-> << Item("playButton", "PLAY", 36, 25, "green1", Nil, Nil, Nil),
                      Item("optionButton", "OPTIONS", 12, 25, "green2", Nil, Nil, Nil),
                      Item("quitButton", "QUIT", 36, 25, "green3", Nil, Nil, Nil) >>]

\* ebitenutil.DebugPrint(screen, str)
DebugPrint(scr, str) ==
    Append(scr, [kind |-> "text", img |-> [BlankImage EXCEPT !.text = str], x |-> 0, y |-> 0])

\* the square of the play and options screens: allocated once, filled, drawn at (64, 64)
DrawSquare(r, someColor) ==
    LET sq0 == IF r.square = NilPtr THEN Ptr(BlankImage) ELSE r.square
        sq1 == Ptr([Deref(sq0) EXCEPT !.fill = someColor])
    IN  [r EXCEPT !.square = sq1,
                  !.screen = Append(r.screen, Composite(Deref(sq1), 64, 64))]

\* the frame so far: r.returned once update has returned, r.exit once the process
\* has ended ("exit": os.Exit, "panic": a run-time panic)
Running(r) == ~r.returned /\ r.exit = "no"

\* the Enter branch of the title screen
Confirm(r) ==
    IF ~CanIndex(r.ml) THEN [r EXCEPT !.exit = "panic"]
    ELSE LET name == GetSelectedItem(r.ml)
         IN  CASE name = "playButton"   -> [r EXCEPT !.state = play, !.returned = TRUE]
               [] name = "optionButton" -> [r EXCEPT !.state = options, !.returned = TRUE]
               [] name = "quitButton"   -> [r EXCEPT !.exit = "exit"]
               [] OTHER                 -> [r EXCEPT !.returned = TRUE]

\* the title screen without its return: the frame runs on into the next screen
TitleBlockFallThrough(r, K) ==
    IF ~(Running(r) /\ r.state = titleScreen) THEN r
    ELSE LET d  == Draw(r.ml, r.images, DebugPrint(r.screen, "Title screen"))
             m1 == IF "KeyUp" \in K THEN DecrementSelected(d.ml) ELSE d.ml
             m2 == IF "KeyDown" \in K THEN IncrementSelected(m1) ELSE m1
             r1 == [r EXCEPT !.ml = m2, !.images = d.images, !.screen = d.screen]
         IN  IF "KeyEnter" \in K THEN [Confirm(r1) EXCEPT !.returned = FALSE] ELSE r1

\* if state == titleScreen { ... }
TitleBlock(r, K) ==
    IF ~(Running(r) /\ r.state = titleScreen) THEN r
    ELSE LET d  == Draw(r.ml, r.images, DebugPrint(r.screen, "Title screen"))
             m1 == IF "KeyUp" \in K THEN DecrementSelected(d.ml) ELSE d.ml
             m2 == IF "KeyDown" \in K THEN IncrementSelected(m1) ELSE m1
             r1 == [r EXCEPT !.ml = m2, !.images = d.images, !.screen = d.screen]
         IN  IF "KeyEnter" \in K THEN Confirm(r1) ELSE r1

\* if state == play { ... }
PlayBlock(r, K) ==
    IF ~(Running(r) /\ r.state = play) THEN r
    ELSE LET r1 == DrawSquare([r EXCEPT !.screen = DebugPrint(r.screen, "Play screen")],
                              "7fff00ff")
         IN  IF "KeyEscape" \in K
             THEN [r1 EXCEPT !.state = titleScreen, !.returned = TRUE]
             ELSE r1

\* if state == options { ... }
OptionsBlock(r, K) ==
    IF ~(Running(r) /\ r.state = options) THEN r
    ELSE LET r1 == DrawSquare([r EXCEPT !.screen = DebugPrint(r.screen, "Options screen")],
                              "8a2be2ff")
         IN  IF "KeyEscape" \in K
             THEN [r1 EXCEPT !.state = titleScreen, !.returned = TRUE]
             ELSE r1

\* update(screen) in a frame whose just-pressed keys are K: the screen is cleared,
\* then the three screens are tried in turn
update(r, K) ==
    OptionsBlock(PlayBlock(TitleBlock([r EXCEPT !.screen = <<>>], K), K), K)

UpdateCall ==
    /\ phase \in {"built", "failed"}
    /\ \E K \in SUBSET Keys :
         LET r == update([state |-> state, ml |-> ml, images |-> images,
                          square |-> square, screen |-> screen,
                          returned |-> FALSE, exit |-> "no"], K)
         IN  /\ state' = r.state
             /\ ml' = r.ml
             /\ images' = r.images
             /\ square' = r.square
             /\ screen' = r.screen
             /\ keys' = K
             /\ phase' = CASE r.exit = "exit"  -> "exited"
                           [] r.exit = "panic" -> "panicked"
                           [] OTHER            -> phase
    /\ lastOp' = "update"
    /\ ret' = NilPtr
    /\ UNCHANGED <<input, err, run>>

\* main up to ebiten.Run: the menu is built (an error is only logged) and the state
\* set to titleScreen
InitHost ==
    /\ input = MainInput
    /\ LET r == NewMenu(input)
       IN  /\ ml = r.ml
           /\ err = r.err
           /\ images = r.images
           /\ phase = IF r.err = Nil THEN "built" ELSE "failed"
    /\ screen = <<>>
    /\ ret = NilPtr
    /\ lastOp = "main"
    /\ run = NoRun
    /\ state = titleScreen
    /\ keys = {}
    /\ square = NilPtr

NextHost == UpdateCall

SpecHost == InitHost /\ [][NextHost]_vars

----------------------------------------------------------------------------
(* Properties *)

Built == phase = "built"
Sel == Deref(ml.SelectedIndex)
N == Len(ml.MenuItems)
Min(a, b) == IF a < b THEN a ELSE b
Max(a, b) == IF a > b THEN a ELSE b

\* C1: NewMenu returns an error and the zero MenuList exactly when the width is 0,
\* the height is 0 or the item list is empty; otherwise it returns no error and a
\* menu holding the items.
C1_ErrorIffMandatoryMissing ==
    phase # "start" =>
        LET missing == input.Width = 0 \/ input.Height = 0 \/ Len(input.MenuItems) = 0
        IN  /\ missing => err # Nil /\ ml = ZeroMenuList /\ phase = "failed"
            /\ ~missing => /\ err = Nil
                           /\ phase = "built"
                           /\ ml.SelectedIndex # NilPtr
                           /\ Len(ml.MenuItems) = Len(input.MenuItems)

\* NewMenu refused an input whose only fault is the empty item list
C1_Witness ==
    /\ phase = "failed"
    /\ input.Width # 0 /\ input.Height # 0 /\ input.MenuItems = <<>>
    /\ err = ErrMenuItems

\* C2: in every state of a built menu, 0 <= selected index <= len(items) - 1.
C2_SelectedIndexInRange == Built => Sel \in 0..(N - 1)

\* more increments than there are items were made and the index stands at the last
C2_Witness ==
    /\ Built /\ N >= 2
    /\ run.op = "IncrementSelected" /\ run.count > N
    /\ Sel = N - 1

\* the index as a function of the current run of navigation calls
C3_RunClamps ==
    Built =>
        /\ run.op = "none" => Sel = 0
        /\ run.op = "IncrementSelected" =>
              /\ Sel = Min(run.from + run.count, N - 1)
              /\ run.count >= N + 5 => Sel = N - 1
        /\ run.op = "DecrementSelected" =>
              /\ Sel = Max(run.from - run.count, 0)
              /\ run.count >= N + 5 => Sel = 0

\* one call: IncrementSelected adds exactly 1 below the last index and does nothing
\* at it; DecrementSelected subtracts exactly 1 above 0 and does nothing at 0
C3_Step ==
    (Built /\ Built') =>
        /\ lastOp' = "IncrementSelected" =>
              Sel' = IF Sel < N - 1 THEN Sel + 1 ELSE Sel
        /\ lastOp' = "DecrementSelected" =>
              Sel' = IF Sel > 0 THEN Sel - 1 ELSE Sel

\* C3: the index is 0 after construction; a run of k IncrementSelected calls started
\* at index f leaves it at min(f + k, len - 1), a run of k DecrementSelected calls at
\* max(f - k, 0); so len + 5 calls in a row end at len - 1, respectively at 0; each
\* call moves the index by exactly 1 or, at the end it moves towards, not at all.
C3_ClampNeverWrap == [](C3_RunClamps) /\ [][C3_Step]_vars

\* len + 5 decrements in a row, started from the last index, ended at 0
C3_Witness ==
    /\ Built /\ N = MaxItems
    /\ run = [op |-> "DecrementSelected", count |-> N + 5, from |-> N - 1]
    /\ Sel = 0

\* the name the call just made returned
C4_Returned == Deref(ret)

\* C4: GetSelectedItem never fails and returns the name of the item at the selected
\* index; with items A, B, C it returns A at first, C after two increments, C after a
\* third, A after three decrements from there, and A after a fourth.
C4_GetReturnsSelectedName ==
    /\ phase # "panicked"
    /\ lastOp = "GetSelectedItem" =>
          /\ Built
          /\ ret # NilPtr
          /\ C4_Returned = ml.MenuItems[Sel + 1].Name
          /\ N = 3 =>
                /\ run = NoRun => C4_Returned = "A"
                /\ run = [op |-> "IncrementSelected", count |-> 2, from |-> 0]
                      => C4_Returned = "C"
                /\ run = [op |-> "IncrementSelected", count |-> 3, from |-> 0]
                      => C4_Returned = "C"
                /\ run = [op |-> "DecrementSelected", count |-> 3, from |-> 2]
                      => C4_Returned = "A"
                /\ run = [op |-> "DecrementSelected", count |-> 4, from |-> 2]
                      => C4_Returned = "A"

\* the name was asked for after the third increment of the A, B, C list
C4_Witness ==
    /\ lastOp = "GetSelectedItem" /\ N = 3
    /\ run = [op |-> "IncrementSelected", count |-> 3, from |-> 0]
    /\ ret = Ptr("C")

\* override, else supplied default, else fallback
C5_Expected(override, default, fallback) ==
    IF override # Nil THEN override
    ELSE IF default # Nil THEN default
    ELSE fallback

\* C5: after a successful construction each of the four colours of each item is not
\* nil and is the item's own override when it supplied one, and otherwise the
\* caller's default for that field when supplied, and otherwise the fallback (cyan,
\* black, magenta, white), field by field.
C5_ColoursResolvedPerField ==
    Built =>
        \A i \in 1..Len(input.MenuItems) :
            LET in  == input.MenuItems[i]
                out == ml.MenuItems[i]
            IN  /\ out.BgColour # Nil /\ out.TxtColour # Nil
                /\ out.SelBgColour # Nil /\ out.SelTxtColour # Nil
                /\ out.BgColour = C5_Expected(in.BgColour, input.DefaultBgColour, "cyan")
                /\ out.TxtColour = C5_Expected(in.TxtColour, input.DefaultTxtColour, "black")
                /\ out.SelBgColour =
                      C5_Expected(in.SelBgColour, input.DefaultSelBGColour, "magenta")
                /\ out.SelTxtColour =
                      C5_Expected(in.SelTxtColour, input.DefaultSelTxtColour, "white")

\* no defaults supplied, the second item overrides its background alone: it is green
\* on black, the first item cyan on black
C5_Witness ==
    /\ Built /\ N = 2
    /\ input.DefaultBgColour = Nil /\ input.DefaultTxtColour = Nil
    /\ input.MenuItems[2].BgColour = "green1" /\ input.MenuItems[2].TxtColour = Nil
    /\ input.MenuItems[1].BgColour = Nil
    /\ ml.MenuItems[2].BgColour = "green1" /\ ml.MenuItems[2].TxtColour = "black"
    /\ ml.MenuItems[1].BgColour = "cyan"

\* C6: after a successful construction Offy is the supplied Offy when that is not
\* zero and the height otherwise; Offx is the supplied Offx.
C6_OffyDefaultsToHeight ==
    Built =>
        /\ ml.Offy = IF input.Offy # 0 THEN input.Offy ELSE input.Height
        /\ ml.Offx = input.Offx

\* both offsets left out: Offy became the height, Offx stayed 0
C6_Witness ==
    /\ Built
    /\ input.Offy = 0 /\ input.Offx = 0 /\ input.Height = 36
    /\ ml.Offy = 36 /\ ml.Offx = 0

\* C7: after a successful construction an item supplied with TxtY = 0 has TxtY =
\* height - 5 (31 for height 36), an item supplied with another TxtY keeps it, and
\* TxtX is as supplied.
C7_TxtYDefaultsToHeightMinus5 ==
    Built =>
        \A i \in 1..Len(input.MenuItems) :
            LET in  == input.MenuItems[i]
                out == ml.MenuItems[i]
            IN  /\ in.TxtY = 0 => out.TxtY = input.Height - 5
                /\ (in.TxtY = 0 /\ input.Height = 36) => out.TxtY = 31
                /\ in.TxtY # 0 => out.TxtY = in.TxtY
                /\ out.TxtX = in.TxtX

\* height 36: the first item, without TxtY, got 31; the second kept its 25
C7_Witness ==
    /\ Built /\ N = 2 /\ input.Height = 36
    /\ input.MenuItems[1].TxtY = 0 /\ ml.MenuItems[1].TxtY = 31
    /\ input.MenuItems[2].TxtY = 25 /\ ml.MenuItems[2].TxtY = 25
    /\ ml.MenuItems[2].TxtX = 36

\* what Draw leaves on the image of an item
C8_DrawnAs(item, selected) ==
    [fill      |-> IF selected THEN item.SelBgColour ELSE item.BgColour,
     text      |-> item.Text,
     txtX      |-> item.TxtX,
     txtY      |-> item.TxtY,
     txtColour |-> IF selected THEN item.SelTxtColour ELSE item.TxtColour]

\* C8: one Draw composites the items in index order, item i at
\* (Tx + i*Offx, Ty + i*Offy), filled and lettered with its selected colours when i is
\* the selected index and with its unselected colours otherwise; exactly one item is
\* drawn as selected.
C8_DrawOrderColoursPlacement ==
    lastOp = "Draw" =>
        /\ Len(screen) = N
        /\ \A i \in 0..(N - 1) :
              /\ screen[i + 1].kind = "image"
              /\ screen[i + 1].img = C8_DrawnAs(ml.MenuItems[i + 1], i = Sel)
              /\ screen[i + 1].x = ml.Tx + i * ml.Offx
              /\ screen[i + 1].y = ml.Ty + i * ml.Offy
              /\ images[Deref(ml.MenuItems[i + 1].image)] = screen[i + 1].img
        /\ Cardinality({i \in 0..(N - 1) :
                           screen[i + 1].img = C8_DrawnAs(ml.MenuItems[i + 1], TRUE)}) = 1

\* a diagonal list of three drawn with its middle item selected
C8_Witness ==
    /\ lastOp = "Draw" /\ N = 3 /\ Sel = 1
    /\ ml.Offx = 10 /\ ml.Offy = 40
    /\ screen[3].x = ml.Tx + 20 /\ screen[3].y = ml.Ty + 80
    /\ screen[2].img.fill = ml.MenuItems[2].SelBgColour
    /\ screen[1].img.fill = ml.MenuItems[1].BgColour

\* the menu without its selection; one step of a built menu
C9_Config(m) == [m EXCEPT !.SelectedIndex = NilPtr]

C9_Step ==
    (Built /\ phase' # "start") =>
        /\ C9_Config(ml') = C9_Config(ml)
        /\ ml'.SelectedIndex # ml.SelectedIndex =>
              lastOp' \in {"IncrementSelected", "DecrementSelected"}
        /\ lastOp' \in {"Draw", "GetSelectedItem"} =>
              ml'.SelectedIndex = ml.SelectedIndex
        /\ lastOp' = "GetSelectedItem" => images' = images
        /\ (lastOp = "Draw" /\ lastOp' = "Draw") =>
              screen' = screen /\ images' = images

\* C9: once built, no call changes the items or the list's translation, size, offsets
\* and defaults; the selected index changes only in IncrementSelected and
\* DecrementSelected, never in Draw or GetSelectedItem; and a Draw right after a Draw
\* produces the same output.
C9_FrozenAfterConstruction == [][C9_Step]_vars

\* a menu drawn after its selection was moved off the first item
C9_Witness ==
    /\ lastOp = "Draw" /\ Sel >= 1 /\ run.count >= 1
    /\ C9_Config(ml) = C9_Config(NewMenu(input).ml)

\* the screens whose debug text a frame printed; one frame
C10_ScreensHandled(scr) ==
    {scr[i].img.text : i \in {j \in DOMAIN scr : scr[j].kind = "text"}}

C10_ScreenName(st) ==
    CASE st = titleScreen -> "Title screen"
      [] st = play        -> "Play screen"
      [] st = options     -> "Options screen"

C10_Step ==
    (lastOp' = "update" /\ phase' # "panicked") =>
        /\ state' # state =>
              \/ /\ state = titleScreen /\ state' = play
                 /\ "KeyEnter" \in keys' /\ GetSelectedItem(ml') = "playButton"
              \/ /\ state = titleScreen /\ state' = options
                 /\ "KeyEnter" \in keys' /\ GetSelectedItem(ml') = "optionButton"
              \/ /\ state \in {play, options} /\ state' = titleScreen
                 /\ "KeyEscape" \in keys'
        /\ ml'.SelectedIndex # ml.SelectedIndex =>
              /\ state = titleScreen
              /\ "KeyUp" \in keys' \/ "KeyDown" \in keys'
        /\ state # titleScreen => ml' = ml
        /\ C10_ScreensHandled(screen') = {C10_ScreenName(state)}
        /\ Len(screen') = IF state = titleScreen THEN 1 + N ELSE 2

\* C10: in update the game state changes only from titleScreen to play on Enter with
\* playButton selected, from titleScreen to options on Enter with optionButton
\* selected, and from play or options to titleScreen on Escape; the selection moves
\* only on the title screen, on Up or Down; a frame handles one screen only, the one
\* it started in; so the selection is kept across a visit to play or options.
C10_HostTransitions == [](phase # "panicked") /\ [][C10_Step]_vars

\* back on the title screen from the options screen with optionButton still selected
C10_Witness ==
    /\ state = titleScreen /\ "KeyEscape" \in keys
    /\ C10_ScreensHandled(screen) = {"Options screen"}
    /\ Sel = 1 /\ GetSelectedItem(ml) = "optionButton"

====
